---- MODULE Spec2Model ----
(***************************************************************************)
(* Access control and credential lifecycle of the HR backend.              *)
(*                                                                         *)
(* One credential document (UserCredentials) with its staff profile is     *)
(* modelled.  Every controller method of AuthController is split at its    *)
(* database round trips: a step that loads the document (findOne) and the  *)
(* step that persists it (save).  Between the two the request works on its *)
(* own in-memory copy (doc), so requests for the same credential           *)
(* interleave exactly as the awaits of the source allow.  save() persists  *)
(* the fields the method assigned.                                         *)
(*                                                                         *)
(* The permission gate (checkPermission) is modelled with the Role and      *)
(* Permission documents it populates and the requests that administer      *)
(* them.                                                                   *)
(*                                                                         *)
(* Next is every request, interleaved.  The specifications the properties  *)
(* are checked under (SpecLock, SpecRing, SpecPass, SpecReset, SpecConc,   *)
(* SpecPerm) run the same handlers and restrict which requests clients     *)
(* send, and whether requests overlap.                                     *)
(*                                                                         *)
(* Time is counted in ticks of a global clock (Date.now()).  Durations are *)
(* scaled to ticks and keep the order of the source:                       *)
(*   lock 30 min  <=  reset token 1 h  <  refresh token 7 d.               *)
(***************************************************************************)
EXTENDS Integers, Sequences, FiniteSets, TLC

\* ---- bounds of the model ------------------------------------------------
MaxTime == 2
MaxResets == 2
MaxCustom == 2

\* ---- program constants ---------------------------------------------------
MaxFailedAttempts == 5
MaxRefreshTokens == 5
AccessTTL == 1
LockDuration == 1
ResetTTL == 1
RefreshTTL == 2

Reqs == {"r1", "r2"}

NoDate == -1
Email == "a@x.com"
Emails == {Email, "nobody@x.com"}

\* ---- passwords (password.utils) ------------------------------------------
\* A password is described by the properties validatePasswordStrength reads.
PwA == [id |-> "A", length |-> 8, lower |-> TRUE, upper |-> TRUE,
        digit |-> TRUE, special |-> TRUE]
PwB == [id |-> "B", length |-> 12, lower |-> TRUE, upper |-> TRUE,
        digit |-> TRUE, special |-> TRUE]
PwShort == [id |-> "S", length |-> 7, lower |-> TRUE, upper |-> TRUE,
            digit |-> TRUE, special |-> TRUE]
Passwords == {PwA, PwB}

NewPasswords == {PwA, PwB, PwShort}

hashPassword(p) == <<"bcrypt", p.id>>

comparePassword(p, hashed) == hashed = hashPassword(p)

validatePasswordStrength(p) ==
    /\ ~(p.length < 8)
    /\ p.lower
    /\ p.upper
    /\ p.digit
    /\ p.special

\* ---- reset tokens (password.utils) ----------------------------------------
hashResetToken(t) == <<"sha256", t>>

\* ---- tokens (jwt.utils) ------------------------------------------------------
\* jwt.sign is a function of the payload, the secret and the issue time, so a
\* token is the record of its signing secret, issue time and expiry.
generateAccessToken(t) == [secret |-> "access", iat |-> t, exp |-> t + AccessTTL]

generateRefreshToken(t) == [secret |-> "refresh", iat |-> t, exp |-> t + RefreshTTL]

\* verifyAccessToken checking the expiry and not the signature.
verifyAccessToken_AnySecret(token, t) == ~(t >= token.exp)

verifyAccessToken(token, t) == token.secret = "access" /\ ~(t >= token.exp)

verifyRefreshToken(token, t) == token.secret = "refresh" /\ ~(t >= token.exp)

ForgedToken == [secret |-> "forged", iat |-> 0, exp |-> 0]

NoToken == [secret |-> "none", iat |-> 0, exp |-> 0]

\* ---- roles and permissions (role.schema, permission.schema) ------------------
Resources == {"staff", "payroll"}
Actions == {"read", "export"}

PermissionIds == {"perm_staff", "perm_payroll"}
PermissionResource == [p \in PermissionIds |->
                          IF p = "perm_staff" THEN "staff" ELSE "payroll"]

\* The roles that exist, with the permission entries they were created with.
RoleIds == {"viewer", "auditor"}
RolePermissions ==
    [role \in RoleIds |->
        IF role = "viewer"
        THEN <<[permissionId |-> "perm_staff", allowedActions |-> {"read"}]>>
        ELSE <<[permissionId |-> "perm_staff", allowedActions |-> {"export"}],
               [permissionId |-> "perm_payroll",
                allowedActions |-> {"read", "export"}]>>]

\* StaffCustomPermission entries a request can add.
CustomEntries ==
    [permissionId : PermissionIds,
     allowedActions : {{"read"}, {"export"}, {"read", "export"}},
     isRevoked : BOOLEAN]

NoCheck == [resource |-> "none", action |-> "none", status |-> 0]

NoAuthorize == [allowedRoles |-> {}, status |-> 0]

\* ---- rate limiter ---------------------------------------------------------
\* Window lengths of the guarded routes in ticks: 15 minutes and one hour.
QuarterWindow == 1
HourWindow == 2

\* The routes behind rateLimitAuth(maxAttempts, windowMs).
RateLimits ==
    [login          |-> [maxAttempts |-> 5, windowMs |-> QuarterWindow],
     forgotPassword |-> [maxAttempts |-> 3, windowMs |-> HourWindow],
     resetPassword  |-> [maxAttempts |-> 5, windowMs |-> HourWindow]]

Endpoints == DOMAIN RateLimits

\* req.ip of the one caller.
Identifiers == {"ip"}

\* loginAttempts.get(identifier) when the Map has no entry.
NoAttempts == [count |-> 0, resetAt |-> NoDate]

\* A request handed on at time at by the entry that ends at resetAt.
PassKeys == [endpoint : Endpoints, at : 0..MaxTime,
             resetAt : 1..(MaxTime + HourWindow)]

NoLimit == [endpoint |-> "none", status |-> 0, retryAfter |-> 0]

VARIABLES
    now,        \* Date.now(), in ticks
    cred,       \* the stored UserCredentials document
    profile,    \* the stored StaffProfile document
    reqs,       \* the requests: position, arguments, in-memory document, response
    resetSeq,   \* number of reset tokens generateResetToken has produced
    resetDone,  \* raw reset tokens a completed resetPassword has accepted
    issued,     \* issue times of the refresh tokens handed to clients
    accessIat,  \* issue time of the newest access token handed to a client
    roles,      \* the Role documents (isActive, permissions)
    permissions,\* the Permission documents (resource, isActive)
    checked,    \* the answer of the checkPermission gate that ran last
    loginAttempts, \* the rate limiter's Map: identifier -> {count, resetAt}
    passed,     \* requests the rate limiter handed on, by endpoint, time, window
    limited,    \* what the rate limiter did with the request that came last
    accessRoles,\* the roles claim of the newest access token handed to a client
    authorized, \* the answer of the authorize gate that ran last
    emailVerification \* isEmailVerified, emailVerificationToken and its expiry

vars == <<now, cred, profile, reqs, resetSeq, resetDone, issued, accessIat,
          roles, permissions, checked, loginAttempts, passed, limited,
          accessRoles, authorized, emailVerification>>

\* ---- UserCredentials methods ----------------------------------------------
\* The comparison of isAccountLocked turned around.
isAccountLocked_Reversed(c, t) ==
    IF c.accountLockedUntil = NoDate THEN FALSE ELSE c.accountLockedUntil < t

isAccountLocked(c, t) ==
    IF c.accountLockedUntil = NoDate THEN FALSE ELSE c.accountLockedUntil > t

\* incrementFailedAttempts testing > 5 where the code tests >= 5.
incrementFailedAttempts_OffByOne(c, t) ==
    LET n == c.failedLoginAttempts + 1
    IN [c EXCEPT !.failedLoginAttempts = n,
                 !.accountLockedUntil =
                     IF n > MaxFailedAttempts THEN t + LockDuration ELSE @]

\* incrementFailedAttempts locking at the fifth failure only (= 5 for >= 5).
incrementFailedAttempts_FifthOnly(c, t) ==
    LET n == c.failedLoginAttempts + 1
    IN [c EXCEPT !.failedLoginAttempts = n,
                 !.accountLockedUntil =
                     IF n = MaxFailedAttempts THEN t + LockDuration ELSE @]

incrementFailedAttempts(c, t) ==
    LET n == c.failedLoginAttempts + 1
    IN [c EXCEPT !.failedLoginAttempts = n,
                 !.accountLockedUntil =
                     IF n >= MaxFailedAttempts THEN t + LockDuration ELSE @]

\* resetFailedAttempts zeroing the counter and leaving accountLockedUntil.
resetFailedAttempts_KeepLock(c) == [c EXCEPT !.failedLoginAttempts = 0]

resetFailedAttempts(c) ==
    [c EXCEPT !.failedLoginAttempts = 0, !.accountLockedUntil = NoDate]

Unexpired(tokens, t) == SelectSeq(tokens, LAMBDA rt : rt.expiresAt > t)

\* Array.prototype.pop in the place of shift: the newest record goes.
shift_Pop(array) == SubSeq(array, 1, Len(array) - 1)

\* Array.prototype.shift: the array without its first element.
shift(array) == Tail(array)

\* addRefreshToken testing length > 5 where the code tests length >= 5.
addRefreshToken_OffByOne(tokens, token, expiresAt, t) ==
    LET kept == SelectSeq(tokens, LAMBDA rt : rt.expiresAt > t)
        room == IF Len(kept) > MaxRefreshTokens THEN shift(kept) ELSE kept
    IN Append(room, [token |-> token, expiresAt |-> expiresAt, createdAt |-> t])

addRefreshToken(tokens, token, expiresAt, t) ==
    LET kept == Unexpired(tokens, t)
        room == IF Len(kept) >= MaxRefreshTokens THEN shift(kept) ELSE kept
    IN Append(room, [token |-> token, expiresAt |-> expiresAt, createdAt |-> t])

removeRefreshToken(tokens, token) == SelectSeq(tokens, LAMBDA rt : rt.token # token)

\* removeAllRefreshTokens dropping one record where the code drops all.
removeAllRefreshTokens_One(tokens) ==
    IF tokens = <<>> THEN <<>> ELSE Tail(tokens)

removeAllRefreshTokens(tokens) == <<>>

\* ---- requests ---------------------------------------------------------------
NoDoc == [password |-> <<"none">>, failedLoginAttempts |-> 0,
          accountLockedUntil |-> NoDate, refreshTokens |-> <<>>,
          passwordResetTokens |-> <<>>, passwordChangedAt |-> NoDate]

\* The in-memory document of a request, reduced to the fields it still reads.
Project(c, fields) ==
    [f \in DOMAIN NoDoc |-> IF f \in fields THEN c[f] ELSE NoDoc[f]]

IdleReq == [pc |-> "idle", op |-> "none", status |-> 0, info |-> "none",
            password |-> PwA, token |-> NoToken, reset |-> 0, found |-> 0,
            doc |-> NoDoc]

\* A request of kind op that has loaded the document and awaits its next step;
\* found is the failedLoginAttempts of the document as it was loaded.
Pending(pc, op, password, token, reset, doc) ==
    [pc |-> pc, op |-> op, status |-> 0, info |-> "none",
     password |-> password, token |-> token, reset |-> reset,
     found |-> doc.failedLoginAttempts, doc |-> doc]

Quiet == \A q \in Reqs : reqs[q].pc = "idle"

\* A new request takes a free slot; the slots are interchangeable.
CanStart(r) ==
    /\ reqs[r].pc = "idle"
    /\ r = CHOOSE q \in Reqs : reqs[q].pc = "idle"

\* res.status(status).json(...): the request is answered; its arguments stay
\* on record until the connection is closed (Close).
Respond(r, op, status, password, token, reset, info) ==
    reqs' = [reqs EXCEPT ![r] =
                [pc |-> "done", op |-> op, status |-> status, info |-> info,
                 password |-> password, token |-> token, reset |-> reset,
                 found |-> reqs[r].found, doc |-> NoDoc]]

Close(r) ==
    /\ reqs[r].pc = "done"
    /\ reqs' = [reqs EXCEPT ![r] = IdleReq]
    /\ UNCHANGED <<now, cred, profile, resetSeq, resetDone, issued, accessIat,
                   roles, permissions, checked,
                   loginAttempts, passed, limited,
                   accessRoles, authorized,
                   emailVerification>>

\* Tokens a client can present: those it was handed, or one it made up.
HeldRefreshTokens == {generateRefreshToken(t) : t \in issued} \cup {ForgedToken}

HeldAccessTokens ==
    (IF accessIat = NoDate THEN {} ELSE {generateAccessToken(accessIat)})
        \cup {ForgedToken}

Init ==
    /\ now = 0
    /\ cred = [password |-> hashPassword(PwA), failedLoginAttempts |-> 0,
               accountLockedUntil |-> NoDate, refreshTokens |-> <<>>,
               passwordResetTokens |-> <<>>, passwordChangedAt |-> NoDate]
    /\ profile = [isActive |-> TRUE, lastLogin |-> NoDate,
                  assignedRoles |-> <<>>, customPermissions |-> <<>>]
    /\ reqs = [r \in Reqs |-> IdleReq]
    /\ resetSeq = 0
    /\ resetDone = {}
    /\ issued = {}
    /\ accessIat = NoDate
    /\ roles = [role \in RoleIds |->
                   [isActive |-> TRUE, permissions |-> RolePermissions[role]]]
    /\ permissions = [p \in PermissionIds |->
                         [resource |-> PermissionResource[p], isActive |-> TRUE]]
    /\ checked = NoCheck
    /\ loginAttempts = [identifier \in Identifiers |-> NoAttempts]
    /\ passed = [k \in PassKeys |-> 0]
    /\ limited = NoLimit
    /\ accessRoles = <<>>
    /\ authorized = NoAuthorize
    /\ emailVerification = [isEmailVerified |-> FALSE,
                            emailVerificationToken |-> "mailed",
                            emailVerificationExpiry |-> 1]

Tick ==
    /\ now < MaxTime
    /\ now' = now + 1
    /\ UNCHANGED <<cred, profile, reqs, resetSeq, resetDone, issued, accessIat,
                   roles, permissions, checked,
                   loginAttempts, passed, limited,
                   accessRoles, authorized,
                   emailVerification>>

\* ---- authenticate middleware ------------------------------------------------
\* authenticate without the isAccountLocked test.
authenticate_NoLockTest(token) ==
    IF ~verifyAccessToken(token, now) THEN 401
    ELSE IF ~profile.isActive THEN 403
    ELSE 200

\* authenticate refusing a token once the credential holds no refresh token.
authenticate_RingRequired(token) ==
    IF ~verifyAccessToken(token, now) THEN 401
    ELSE IF cred.refreshTokens = <<>> THEN 401
    ELSE IF isAccountLocked(cred, now) THEN 403
    ELSE IF ~profile.isActive THEN 403
    ELSE 200

\* The status authenticate answers with; 200 stands for next().
authenticate(token) ==
    IF ~verifyAccessToken(token, now) THEN 401
    ELSE IF isAccountLocked(cred, now) THEN 403
    ELSE IF ~profile.isActive THEN 403
    ELSE 200

\* A request to a route behind authenticate alone: the handler is reached
\* (info "next") when authenticate calls next(), else the middleware answers.
ProtectedRoute(r, token) ==
    /\ CanStart(r)
    /\ Respond(r, "protected", authenticate(token), PwA, token, 0,
               IF authenticate(token) = 200 THEN "next" ELSE "refused")
    /\ UNCHANGED <<now, cred, profile, resetSeq, resetDone, issued, accessIat,
                   roles, permissions, checked,
                   loginAttempts, passed, limited,
                   accessRoles, authorized,
                   emailVerification>>

\* ---- AuthController.login ---------------------------------------------------
\* login comparing the password before it looks at the lock.
LoginFind_CompareFirst(r, email, pw) ==
    /\ CanStart(r)
    /\ IF email # Email
       THEN /\ Respond(r, "login", 401, pw, NoToken, 0, "unknown")
            /\ UNCHANGED cred
       ELSE IF ~comparePassword(pw, cred.password)
       THEN /\ cred' = incrementFailedAttempts(cred, now)
            /\ Respond(r, "login", 401, pw, NoToken, 0, "mismatch")
       ELSE IF isAccountLocked(cred, now)
       THEN /\ Respond(r, "login", 403, pw, NoToken, 0, "locked")
            /\ UNCHANGED cred
       ELSE /\ reqs' = [reqs EXCEPT ![r] =
                   Pending("login_store", "login", pw, NoToken, 0,
                           Project(cred, {"refreshTokens"}))]
            /\ UNCHANGED cred
    /\ UNCHANGED <<now, profile, resetSeq, resetDone, issued, accessIat,
                   roles, permissions, checked,
                   loginAttempts, passed, limited,
                   accessRoles, authorized,
                   emailVerification>>

\* findOne and the lock check.
LoginFind(r, email, pw) ==
    /\ CanStart(r)
    /\ IF email # Email
       THEN Respond(r, "login", 401, pw, NoToken, 0, "unknown")
       ELSE IF isAccountLocked(cred, now)
       THEN Respond(r, "login", 403, pw, NoToken, 0, "locked")
       ELSE reqs' = [reqs EXCEPT ![r] =
                Pending("login_verify", "login", pw, NoToken, 0,
                        Project(cred, {"password", "failedLoginAttempts",
                                       "accountLockedUntil", "refreshTokens"}))]
    /\ UNCHANGED <<now, cred, profile, resetSeq, resetDone, issued, accessIat,
                   roles, permissions, checked,
                   loginAttempts, passed, limited,
                   accessRoles, authorized,
                   emailVerification>>

\* comparePassword, then incrementFailedAttempts or resetFailedAttempts; save()
\* writes accountLockedUntil when incrementFailedAttempts has changed it.
LoginVerify(r) ==
    /\ reqs[r].pc = "login_verify"
    /\ LET doc == reqs[r].doc
       IN IF ~comparePassword(reqs[r].password, doc.password)
          THEN LET d == incrementFailedAttempts(doc, now)
               IN /\ cred' = [cred EXCEPT
                         !.failedLoginAttempts = d.failedLoginAttempts,
                         !.accountLockedUntil =
                             IF d.accountLockedUntil # doc.accountLockedUntil
                             THEN d.accountLockedUntil ELSE @]
                  /\ Respond(r, "login", 401, reqs[r].password, NoToken, 0, "mismatch")
          ELSE LET d == resetFailedAttempts(doc)
               IN /\ cred' = [cred EXCEPT
                         !.failedLoginAttempts = d.failedLoginAttempts,
                         !.accountLockedUntil = d.accountLockedUntil]
                  /\ reqs' = [reqs EXCEPT ![r].pc = "login_store",
                                          ![r].doc = Project(d, {"refreshTokens"})]
    /\ UNCHANGED <<now, profile, resetSeq, resetDone, issued, accessIat,
                   roles, permissions, checked,
                   loginAttempts, passed, limited,
                   accessRoles, authorized,
                   emailVerification>>

\* Profile check, generateTokens, addRefreshToken, profile.lastLogin.
LoginStore(r) ==
    /\ reqs[r].pc = "login_store"
    /\ IF ~profile.isActive
       THEN /\ Respond(r, "login", 403, reqs[r].password, NoToken, 0, "inactive")
            /\ UNCHANGED <<cred, profile, issued, accessIat, accessRoles,
                           emailVerification>>
       ELSE LET held == reqs[r].doc.refreshTokens
                refreshToken == generateRefreshToken(now)
            IN /\ cred' = [cred EXCEPT !.refreshTokens =
                              addRefreshToken(held, refreshToken, now + RefreshTTL, now)]
               /\ profile' = [profile EXCEPT !.lastLogin = now]
               /\ issued' = issued \cup {now}
               /\ accessIat' = now
               /\ accessRoles' = profile.assignedRoles
               /\ Respond(r, "login", 200, reqs[r].password, refreshToken, 0,
                          IF Len(Unexpired(held, now)) >= MaxRefreshTokens
                          THEN "evicted"
                          ELSE IF Unexpired(held, now) # held
                               THEN "pruned" ELSE "added")
    /\ UNCHANGED <<now, resetSeq, resetDone,
                   roles, permissions, checked,
                   loginAttempts, passed, limited, authorized,
                   emailVerification>>

\* ---- AuthController.refreshToken --------------------------------------------
\* refreshToken without the test of profile.isActive.
RefreshStatus_NoActiveTest(token) ==
    LET stored == SelectSeq(cred.refreshTokens,
                            LAMBDA rt : rt.token = token /\ rt.expiresAt > now)
    IN IF token = NoToken THEN 400
       ELSE IF ~verifyRefreshToken(token, now) THEN 401
       ELSE IF stored = <<>> THEN 401
       ELSE 200

\* The status refreshToken answers a token with.
RefreshStatus(token) ==
    LET stored == SelectSeq(cred.refreshTokens,
                            LAMBDA rt : rt.token = token /\ rt.expiresAt > now)
    IN IF token = NoToken THEN 400
       ELSE IF ~verifyRefreshToken(token, now) THEN 401
       ELSE IF stored = <<>> THEN 401
       ELSE IF ~profile.isActive THEN 403
       ELSE 200

\* refreshToken signing an access token before it has checked anything.
Refresh_AlwaysIssues(r, token) ==
    /\ CanStart(r)
    /\ Respond(r, "refresh", RefreshStatus(token), PwA, token, 0, "none")
    /\ accessIat' = now
    /\ accessRoles' = profile.assignedRoles
    /\ UNCHANGED <<now, cred, profile, resetSeq, resetDone, issued,
                   roles, permissions, checked,
                   loginAttempts, passed, limited, authorized,
                   emailVerification>>

Refresh(r, token) ==
    /\ CanStart(r)
    /\ LET status == RefreshStatus(token)
       IN /\ Respond(r, "refresh", status, PwA, token, 0, "none")
          /\ accessIat' = IF status = 200 THEN now ELSE accessIat
          /\ accessRoles' = IF status = 200 THEN profile.assignedRoles
                            ELSE accessRoles
    /\ UNCHANGED <<now, cred, profile, resetSeq, resetDone, issued,
                   roles, permissions, checked,
                   loginAttempts, passed, limited, authorized,
                   emailVerification>>

\* ---- AuthController.logout --------------------------------------------------
\* logout whose catch answers 401 where the code answers 200.
LogoutFind_Unswallowed(r, token) ==
    /\ CanStart(r)
    /\ IF token = NoToken
       THEN Respond(r, "logout", 400, PwA, token, 0, "required")
       ELSE IF ~verifyRefreshToken(token, now)
       THEN Respond(r, "logout", 401, PwA, token, 0, "invalid")
       ELSE reqs' = [reqs EXCEPT ![r] =
                Pending("logout_save", "logout", PwA, token, 0,
                        Project(cred, {"refreshTokens"}))]
    /\ UNCHANGED <<now, cred, profile, resetSeq, resetDone, issued, accessIat,
                   roles, permissions, checked,
                   loginAttempts, passed, limited,
                   accessRoles, authorized,
                   emailVerification>>

LogoutFind(r, token) ==
    /\ CanStart(r)
    /\ IF token = NoToken
       THEN Respond(r, "logout", 400, PwA, token, 0, "required")
       ELSE IF ~verifyRefreshToken(token, now)
       THEN Respond(r, "logout", 200, PwA, token, 0, "invalid")
       ELSE reqs' = [reqs EXCEPT ![r] =
                Pending("logout_save", "logout", PwA, token, 0,
                        Project(cred, {"refreshTokens"}))]
    /\ UNCHANGED <<now, cred, profile, resetSeq, resetDone, issued, accessIat,
                   roles, permissions, checked,
                   loginAttempts, passed, limited,
                   accessRoles, authorized,
                   emailVerification>>

LogoutSave(r) ==
    /\ reqs[r].pc = "logout_save"
    /\ LET held == reqs[r].doc.refreshTokens
           kept == removeRefreshToken(held, reqs[r].token)
       IN /\ cred' = [cred EXCEPT !.refreshTokens = kept]
          /\ Respond(r, "logout", 200, PwA, reqs[r].token, 0,
                     IF kept # held THEN "removed" ELSE "absent")
    /\ UNCHANGED <<now, profile, resetSeq, resetDone, issued, accessIat,
                   roles, permissions, checked,
                   loginAttempts, passed, limited,
                   accessRoles, authorized,
                   emailVerification>>

\* ---- AuthController.logoutAll -----------------------------------------------
LogoutAllFind(r, access) ==
    /\ CanStart(r)
    /\ IF authenticate(access) # 200
       THEN Respond(r, "logoutAll", authenticate(access), PwA, NoToken, 0,
                    "unauthenticated")
       ELSE reqs' = [reqs EXCEPT ![r] =
                Pending("logoutall_save", "logoutAll", PwA, NoToken, 0,
                        Project(cred, {"refreshTokens"}))]
    /\ UNCHANGED <<now, cred, profile, resetSeq, resetDone, issued, accessIat,
                   roles, permissions, checked,
                   loginAttempts, passed, limited,
                   accessRoles, authorized,
                   emailVerification>>

LogoutAllSave(r) ==
    /\ reqs[r].pc = "logoutall_save"
    /\ cred' = [cred EXCEPT !.refreshTokens =
                   removeAllRefreshTokens(reqs[r].doc.refreshTokens)]
    /\ Respond(r, "logoutAll", 200, PwA, NoToken, 0,
               IF reqs[r].doc.refreshTokens # <<>> THEN "removed" ELSE "absent")
    /\ UNCHANGED <<now, profile, resetSeq, resetDone, issued, accessIat,
                   roles, permissions, checked,
                   loginAttempts, passed, limited,
                   accessRoles, authorized,
                   emailVerification>>

\* ---- AuthController.changePassword ------------------------------------------
\* changePassword ending every session before it has compared the current
\* password.
ChangeFind_LogsOutFirst(r, access, currentPassword, newPassword) ==
    /\ CanStart(r)
    /\ IF authenticate(access) # 200
       THEN /\ Respond(r, "changePassword", authenticate(access), PwA, NoToken, 0,
                       "unauthenticated")
            /\ UNCHANGED cred
       ELSE IF ~validatePasswordStrength(newPassword)
       THEN /\ Respond(r, "changePassword", 400, PwA, NoToken, 0, "weak")
            /\ UNCHANGED cred
       ELSE IF ~comparePassword(currentPassword, cred.password)
       THEN /\ Respond(r, "changePassword", 401, PwA, NoToken, 0, "mismatch")
            /\ cred' = [cred EXCEPT !.refreshTokens =
                           removeAllRefreshTokens(cred.refreshTokens)]
       ELSE /\ reqs' = [reqs EXCEPT ![r] =
                  Pending("change_save", "changePassword", newPassword, NoToken, 0,
                          Project(cred, {"refreshTokens"}))]
            /\ UNCHANGED cred
    /\ UNCHANGED <<now, profile, resetSeq, resetDone, issued, accessIat,
                   roles, permissions, checked,
                   loginAttempts, passed, limited,
                   accessRoles, authorized,
                   emailVerification>>

\* changePassword counting a wrong current password as a failed attempt.
ChangeFind_CountsMismatch(r, access, currentPassword, newPassword) ==
    /\ CanStart(r)
    /\ IF authenticate(access) # 200
       THEN /\ Respond(r, "changePassword", authenticate(access), PwA, NoToken, 0,
                       "unauthenticated")
            /\ UNCHANGED cred
       ELSE IF ~validatePasswordStrength(newPassword)
       THEN /\ Respond(r, "changePassword", 400, PwA, NoToken, 0, "weak")
            /\ UNCHANGED cred
       ELSE IF ~comparePassword(currentPassword, cred.password)
       THEN /\ Respond(r, "changePassword", 401, PwA, NoToken, 0, "mismatch")
            /\ cred' = incrementFailedAttempts(cred, now)
       ELSE /\ reqs' = [reqs EXCEPT ![r] =
                  Pending("change_save", "changePassword", newPassword, NoToken, 0,
                          Project(cred, {"refreshTokens"}))]
            /\ UNCHANGED cred
    /\ UNCHANGED <<now, profile, resetSeq, resetDone, issued, accessIat,
                   roles, permissions, checked,
                   loginAttempts, passed, limited,
                   accessRoles, authorized,
                   emailVerification>>

ChangeFind(r, access, currentPassword, newPassword) ==
    /\ CanStart(r)
    /\ IF authenticate(access) # 200
       THEN Respond(r, "changePassword", authenticate(access), PwA, NoToken, 0,
                    "unauthenticated")
       ELSE IF ~validatePasswordStrength(newPassword)
       THEN Respond(r, "changePassword", 400, PwA, NoToken, 0, "weak")
       ELSE IF ~comparePassword(currentPassword, cred.password)
       THEN Respond(r, "changePassword", 401, PwA, NoToken, 0, "mismatch")
       ELSE reqs' = [reqs EXCEPT ![r] =
                Pending("change_save", "changePassword", newPassword, NoToken, 0,
                        Project(cred, {"refreshTokens"}))]
    /\ UNCHANGED <<now, cred, profile, resetSeq, resetDone, issued, accessIat,
                   roles, permissions, checked,
                   loginAttempts, passed, limited,
                   accessRoles, authorized,
                   emailVerification>>

ChangeSave(r) ==
    /\ reqs[r].pc = "change_save"
    /\ cred' = [cred EXCEPT
           !.password = hashPassword(reqs[r].password),
           !.passwordChangedAt = now,
           !.refreshTokens = removeAllRefreshTokens(reqs[r].doc.refreshTokens)]
    /\ Respond(r, "changePassword", 200, PwA, NoToken, 0,
               IF reqs[r].doc.refreshTokens # <<>> THEN "removed" ELSE "absent")
    /\ UNCHANGED <<now, profile, resetSeq, resetDone, issued, accessIat,
                   roles, permissions, checked,
                   loginAttempts, passed, limited,
                   accessRoles, authorized,
                   emailVerification>>

\* ---- AuthController.forgotPassword ------------------------------------------
ForgotFind(r, email) ==
    /\ CanStart(r)
    /\ IF email # Email
       THEN /\ Respond(r, "forgotPassword", 200, PwA, NoToken, 0, "unknown")
            /\ UNCHANGED resetSeq
       ELSE /\ resetSeq < MaxResets
            /\ resetSeq' = resetSeq + 1
            /\ reqs' = [reqs EXCEPT ![r] =
                   Pending("forgot_save", "forgotPassword", PwA, NoToken, resetSeq + 1,
                           Project(cred, {"passwordResetTokens"}))]
    /\ UNCHANGED <<now, cred, profile, resetDone, issued, accessIat,
                   roles, permissions, checked,
                   loginAttempts, passed, limited,
                   accessRoles, authorized,
                   emailVerification>>

ForgotSave(r) ==
    /\ reqs[r].pc = "forgot_save"
    /\ cred' = [cred EXCEPT !.passwordResetTokens =
           Append(reqs[r].doc.passwordResetTokens,
                  [token |-> hashResetToken(reqs[r].reset),
                   expiresAt |-> now + ResetTTL, createdAt |-> now, used |-> FALSE])]
    /\ Respond(r, "forgotPassword", 200, PwA, NoToken, reqs[r].reset, "sent")
    /\ UNCHANGED <<now, profile, resetSeq, resetDone, issued, accessIat,
                   roles, permissions, checked,
                   loginAttempts, passed, limited,
                   accessRoles, authorized,
                   emailVerification>>

\* ---- AuthController.resetPassword -------------------------------------------
\* UserCredentialsModel.findOne with three conditions on the fields of the
\* passwordResetTokens array: each condition asks for some element.
FindByResetToken(c, hashedToken, t) ==
    /\ \E i \in DOMAIN c.passwordResetTokens :
           c.passwordResetTokens[i].token = hashedToken
    /\ \E i \in DOMAIN c.passwordResetTokens :
           c.passwordResetTokens[i].expiresAt > t
    /\ \E i \in DOMAIN c.passwordResetTokens :
           c.passwordResetTokens[i].used = FALSE

\* findIndex by token, then used = true on that element.
MarkUsed(records, hashedToken) ==
    LET hits == {i \in DOMAIN records : records[i].token = hashedToken}
    IN IF hits = {} THEN records
       ELSE LET tokenIndex == CHOOSE i \in hits : \A j \in hits : i <= j
            IN [records EXCEPT ![tokenIndex].used = TRUE]

ResetFind(r, token, newPassword) ==
    /\ CanStart(r)
    /\ IF ~validatePasswordStrength(newPassword)
       THEN Respond(r, "resetPassword", 400, PwA, NoToken, token, "weak")
       ELSE IF ~FindByResetToken(cred, hashResetToken(token), now)
       THEN Respond(r, "resetPassword", 400, PwA, NoToken, token, "invalid")
       ELSE reqs' = [reqs EXCEPT ![r] =
                Pending("reset_save", "resetPassword", newPassword, NoToken, token,
                        Project(cred, {"passwordResetTokens", "refreshTokens"}))]
    /\ UNCHANGED <<now, cred, profile, resetSeq, resetDone, issued, accessIat,
                   roles, permissions, checked,
                   loginAttempts, passed, limited,
                   accessRoles, authorized,
                   emailVerification>>

ResetSave(r) ==
    /\ reqs[r].pc = "reset_save"
    /\ cred' = [cred EXCEPT
           !.password = hashPassword(reqs[r].password),
           !.passwordChangedAt = now,
           !.passwordResetTokens =
               MarkUsed(reqs[r].doc.passwordResetTokens, hashResetToken(reqs[r].reset)),
           !.refreshTokens = removeAllRefreshTokens(reqs[r].doc.refreshTokens)]
    /\ resetDone' = resetDone \cup {reqs[r].reset}
    /\ Respond(r, "resetPassword", 200, PwA, NoToken, reqs[r].reset,
               IF reqs[r].doc.refreshTokens # <<>> THEN "removed" ELSE "absent")
    /\ UNCHANGED <<now, profile, resetSeq, issued, accessIat,
                   roles, permissions, checked,
                   loginAttempts, passed, limited,
                   accessRoles, authorized,
                   emailVerification>>

\* ---- StaffProfileController.updateAccountStatus -----------------------------
UpdateAccountStatus(isActive) ==
    /\ profile.isActive # isActive
    /\ profile' = [profile EXCEPT !.isActive = isActive]
    /\ UNCHANGED <<now, cred, reqs, resetSeq, resetDone, issued, accessIat,
                   roles, permissions, checked,
                   loginAttempts, passed, limited,
                   accessRoles, authorized,
                   emailVerification>>

\* ---- AuthController.verifyEmail ---------------------------------------------
VerifyFind(r, token) ==
    /\ CanStart(r)
    /\ IF /\ emailVerification.emailVerificationToken = token
          /\ emailVerification.emailVerificationExpiry > now
       THEN reqs' = [reqs EXCEPT ![r] =
                Pending("verify_save", "verifyEmail", PwA, NoToken, 0, NoDoc)]
       ELSE Respond(r, "verifyEmail", 400, PwA, NoToken, 0, "invalid")
    /\ UNCHANGED <<now, cred, profile, resetSeq, resetDone, issued, accessIat,
                   roles, permissions, checked,
                   loginAttempts, passed, limited,
                   accessRoles, authorized,
                   emailVerification>>

VerifySave(r) ==
    /\ reqs[r].pc = "verify_save"
    /\ emailVerification' = [isEmailVerified |-> TRUE,
                             emailVerificationToken |-> "undefined",
                             emailVerificationExpiry |-> NoDate]
    /\ Respond(r, "verifyEmail", 200, PwA, NoToken, 0, "verified")
    /\ UNCHANGED <<now, cred, profile, resetSeq, resetDone, issued, accessIat,
                   roles, permissions, checked,
                   loginAttempts, passed, limited,
                   accessRoles, authorized>>

\* ---- StaffProfileController: roles and custom permissions ---------------------
\* $addToSet with $each: every id the array does not hold yet is appended.
RECURSIVE AddToSet(_, _)
AddToSet(array, ids) ==
    IF ids = <<>> THEN array
    ELSE AddToSet(IF \E i \in DOMAIN array : array[i] = Head(ids)
                  THEN array ELSE Append(array, Head(ids)),
                  Tail(ids))

RoleIdArrays ==
    {<<role>> : role \in RoleIds}
        \cup {ids \in RoleIds \X RoleIds : ids[1] # ids[2]}

assignRoles(roleIds) ==
    /\ profile' = [profile EXCEPT !.assignedRoles = AddToSet(@, roleIds)]
    /\ checked' = NoCheck
    /\ authorized' = NoAuthorize
    /\ UNCHANGED <<now, cred, reqs, resetSeq, resetDone, issued, accessIat,
                   roles, permissions,
                   loginAttempts, passed, limited, accessRoles,
                   emailVerification>>

\* $pull with $in.
removeRoles(roleIds) ==
    /\ profile' = [profile EXCEPT !.assignedRoles =
           SelectSeq(@, LAMBDA role : \A i \in DOMAIN roleIds : roleIds[i] # role)]
    /\ checked' = NoCheck
    /\ authorized' = NoAuthorize
    /\ UNCHANGED <<now, cred, reqs, resetSeq, resetDone, issued, accessIat,
                   roles, permissions,
                   loginAttempts, passed, limited, accessRoles,
                   emailVerification>>

\* $push with $each: the entries go to the end of the list.
addCustomPermissions(entries) ==
    /\ Len(profile.customPermissions) + Len(entries) <= MaxCustom
    /\ profile' = [profile EXCEPT !.customPermissions = @ \o entries]
    /\ checked' = NoCheck
    /\ UNCHANGED <<now, cred, reqs, resetSeq, resetDone, issued, accessIat,
                   roles, permissions,
                   loginAttempts, passed, limited,
                   accessRoles, authorized,
                   emailVerification>>

toggleRoleStatus(role) ==
    /\ roles' = [roles EXCEPT ![role].isActive = ~@]
    /\ checked' = NoCheck
    /\ UNCHANGED <<now, cred, profile, reqs, resetSeq, resetDone, issued, accessIat,
                   permissions,
                   loginAttempts, passed, limited,
                   accessRoles, authorized,
                   emailVerification>>

togglePermissionStatus(p) ==
    /\ permissions' = [permissions EXCEPT ![p].isActive = ~@]
    /\ checked' = NoCheck
    /\ UNCHANGED <<now, cred, profile, reqs, resetSeq, resetDone, issued, accessIat,
                   roles,
                   loginAttempts, passed, limited,
                   accessRoles, authorized,
                   emailVerification>>

\* ---- checkPermission middleware ------------------------------------------------
\* The loop over profile.assignedRoles and each role's permissions: hasPermission
\* becomes true at the first entry that passes the test, and both loops stop.
RolePermissionGrants(rolePermission, resource, action) ==
    LET permission == permissions[rolePermission.permissionId]
    IN /\ permission.resource = resource
       /\ action \in rolePermission.allowedActions
       /\ permission.isActive

CheckRolePermissions(p, resource, action) ==
    \E i \in DOMAIN p.assignedRoles :
        LET role == roles[p.assignedRoles[i]]
        IN \E j \in DOMAIN role.permissions :
               RolePermissionGrants(role.permissions[j], resource, action)

\* The custom loop going on after a revoked entry where the code breaks.
RECURSIVE CheckCustomPermissions_NoBreak(_, _, _, _, _)
CheckCustomPermissions_NoBreak(custom, i, resource, action, hasPermission) ==
    IF i > Len(custom) THEN hasPermission
    ELSE LET customPerm == custom[i]
             permission == permissions[customPerm.permissionId]
         IN IF permission.resource = resource
            THEN IF customPerm.isRevoked
                 THEN CheckCustomPermissions_NoBreak(custom, i + 1, resource, action,
                                                     FALSE)
                 ELSE IF action \in customPerm.allowedActions THEN TRUE
                 ELSE CheckCustomPermissions_NoBreak(custom, i + 1, resource, action,
                                                     hasPermission)
            ELSE CheckCustomPermissions_NoBreak(custom, i + 1, resource, action,
                                                hasPermission)

\* The custom loop handling revocations only: a custom entry never grants.
RECURSIVE CheckCustomPermissions_RevokeOnly(_, _, _, _, _)
CheckCustomPermissions_RevokeOnly(custom, i, resource, action, hasPermission) ==
    IF i > Len(custom) THEN hasPermission
    ELSE LET customPerm == custom[i]
             permission == permissions[customPerm.permissionId]
         IN IF permission.resource = resource /\ customPerm.isRevoked
            THEN FALSE
            ELSE CheckCustomPermissions_RevokeOnly(custom, i + 1, resource, action,
                                                   hasPermission)

\* The loop over profile.customPermissions from entry i on, in list order.
RECURSIVE CheckCustomPermissions(_, _, _, _, _)
CheckCustomPermissions(custom, i, resource, action, hasPermission) ==
    IF i > Len(custom) THEN hasPermission
    ELSE LET customPerm == custom[i]
             permission == permissions[customPerm.permissionId]
         IN IF permission.resource = resource
            THEN IF customPerm.isRevoked THEN FALSE
                 ELSE IF action \in customPerm.allowedActions THEN TRUE
                 ELSE CheckCustomPermissions(custom, i + 1, resource, action,
                                             hasPermission)
            ELSE CheckCustomPermissions(custom, i + 1, resource, action,
                                        hasPermission)

HasPermission(p, resource, action) ==
    CheckCustomPermissions(p.customPermissions, 1, resource, action,
                           CheckRolePermissions(p, resource, action))

\* checkPermission resolving the roles named in the token's claims where the code
\* loads the profile again.
checkPermission_TokenRoles(resource, action) ==
    /\ checked' = [resource |-> resource, action |-> action,
                   status |-> IF HasPermission(
                                     [profile EXCEPT !.assignedRoles = accessRoles],
                                     resource, action)
                              THEN 200 ELSE 403]
    /\ UNCHANGED <<now, cred, profile, reqs, resetSeq, resetDone, issued, accessIat,
                   roles, permissions,
                   loginAttempts, passed, limited,
                   accessRoles, authorized,
                   emailVerification>>

\* The gate of a route: next() is recorded as 200.
checkPermission(resource, action) ==
    /\ checked' = [resource |-> resource, action |-> action,
                   status |-> IF HasPermission(profile, resource, action)
                              THEN 200 ELSE 403]
    /\ UNCHANGED <<now, cred, profile, reqs, resetSeq, resetDone, issued, accessIat,
                   roles, permissions,
                   loginAttempts, passed, limited,
                   accessRoles, authorized,
                   emailVerification>>

\* ---- authorize middleware -------------------------------------------------------
\* authorize reading the roles claim of the token where the code reads the
\* profile that authenticate attached.
authorize_TokenRoles(allowedRoles) ==
    LET userRoles == {accessRoles[i] : i \in DOMAIN accessRoles}
        hasRole == \E role \in allowedRoles : role \in userRoles
    IN /\ authorized' = [allowedRoles |-> allowedRoles,
                         status |-> IF hasRole THEN 200 ELSE 403]
       /\ UNCHANGED <<now, cred, profile, reqs, resetSeq, resetDone, issued,
                      accessIat, roles, permissions, checked,
                      loginAttempts, passed, limited, accessRoles,
                      emailVerification>>

\* The role gate of a route, run on the profile authenticate has just attached;
\* next() is recorded as 200.
authorize(allowedRoles) ==
    LET userRoles == {profile.assignedRoles[i] : i \in DOMAIN profile.assignedRoles}
        hasRole == \E role \in allowedRoles : role \in userRoles
    IN /\ authorized' = [allowedRoles |-> allowedRoles,
                         status |-> IF hasRole THEN 200 ELSE 403]
       /\ UNCHANGED <<now, cred, profile, reqs, resetSeq, resetDone, issued,
                      accessIat, roles, permissions, checked,
                      loginAttempts, passed, limited, accessRoles,
                      emailVerification>>

\* ---- rateLimitAuth middleware ------------------------------------------------
\* rateLimitAuth testing count > maxAttempts where the code tests >=.
rateLimitAuth_OffByOne(maxAttempts, windowMs, endpoint, identifier) ==
    LET attempts == loginAttempts[identifier]
    IN /\ IF attempts # NoAttempts /\ attempts.resetAt > now
          THEN IF attempts.count > maxAttempts
               THEN /\ limited' = [endpoint |-> endpoint, status |-> 429,
                                   retryAfter |-> attempts.resetAt - now]
                    /\ UNCHANGED <<loginAttempts, passed>>
               ELSE /\ loginAttempts' =
                          [loginAttempts EXCEPT ![identifier].count = @ + 1]
                    /\ passed' = [passed EXCEPT
                          ![[endpoint |-> endpoint, at |-> now,
                             resetAt |-> attempts.resetAt]] = @ + 1]
                    /\ limited' = [endpoint |-> endpoint, status |-> 200,
                                   retryAfter |-> 0]
          ELSE /\ loginAttempts' =
                     [loginAttempts EXCEPT ![identifier] =
                         [count |-> 1, resetAt |-> now + windowMs]]
               /\ passed' = [passed EXCEPT
                     ![[endpoint |-> endpoint, at |-> now,
                        resetAt |-> now + windowMs]] = @ + 1]
               /\ limited' = [endpoint |-> endpoint, status |-> 200,
                              retryAfter |-> 0]
       /\ UNCHANGED <<now, cred, profile, reqs, resetSeq, resetDone, issued,
                      accessIat, roles, permissions, checked,
                      accessRoles, authorized,
                      emailVerification>>

\* The middleware for one request; status 200 stands for next().
\* rateLimitAuth opening every entry with the default windowMs, whatever the
\* route passed.
rateLimitAuth_DefaultWindow(maxAttempts, windowMs, endpoint, identifier) ==
    LET attempts == loginAttempts[identifier]
    IN /\ IF attempts # NoAttempts /\ attempts.resetAt > now
          THEN IF attempts.count >= maxAttempts
               THEN /\ limited' = [endpoint |-> endpoint, status |-> 429,
                                   retryAfter |-> attempts.resetAt - now]
                    /\ UNCHANGED <<loginAttempts, passed>>
               ELSE /\ loginAttempts' =
                          [loginAttempts EXCEPT ![identifier].count = @ + 1]
                    /\ passed' = [passed EXCEPT
                          ![[endpoint |-> endpoint, at |-> now,
                             resetAt |-> attempts.resetAt]] = @ + 1]
                    /\ limited' = [endpoint |-> endpoint, status |-> 200,
                                   retryAfter |-> 0]
          ELSE /\ loginAttempts' =
                     [loginAttempts EXCEPT ![identifier] =
                         [count |-> 1, resetAt |-> now + QuarterWindow]]
               /\ passed' = [passed EXCEPT
                     ![[endpoint |-> endpoint, at |-> now,
                        resetAt |-> now + QuarterWindow]] = @ + 1]
               /\ limited' = [endpoint |-> endpoint, status |-> 200,
                              retryAfter |-> 0]
       /\ UNCHANGED <<now, cred, profile, reqs, resetSeq, resetDone, issued,
                      accessIat, roles, permissions, checked,
                      accessRoles, authorized, emailVerification>>

rateLimitAuth(maxAttempts, windowMs, endpoint, identifier) ==
    LET attempts == loginAttempts[identifier]
    IN /\ IF attempts # NoAttempts /\ attempts.resetAt > now
          THEN IF attempts.count >= maxAttempts
               THEN /\ limited' = [endpoint |-> endpoint, status |-> 429,
                                   retryAfter |-> attempts.resetAt - now]
                    /\ UNCHANGED <<loginAttempts, passed>>
               ELSE /\ loginAttempts' =
                          [loginAttempts EXCEPT ![identifier].count = @ + 1]
                    /\ passed' = [passed EXCEPT
                          ![[endpoint |-> endpoint, at |-> now,
                             resetAt |-> attempts.resetAt]] = @ + 1]
                    /\ limited' = [endpoint |-> endpoint, status |-> 200,
                                   retryAfter |-> 0]
          ELSE /\ loginAttempts' =
                     [loginAttempts EXCEPT ![identifier] =
                         [count |-> 1, resetAt |-> now + windowMs]]
               /\ passed' = [passed EXCEPT
                     ![[endpoint |-> endpoint, at |-> now,
                        resetAt |-> now + windowMs]] = @ + 1]
               /\ limited' = [endpoint |-> endpoint, status |-> 200,
                              retryAfter |-> 0]
       /\ UNCHANGED <<now, cred, profile, reqs, resetSeq, resetDone, issued,
                      accessIat, roles, permissions, checked,
                      accessRoles, authorized,
                      emailVerification>>

\* ---- specifications -----------------------------------------------------------
\* Requests clients send.  Each specification below lets clients send the
\* requests its properties are about; the handlers are the same in all of them.
ClientLogin ==
    \E r \in Reqs, e \in Emails, p \in Passwords : LoginFind(r, e, p)

\* A login of the account's owner, who knows the password.
OwnerLogin ==
    \E r \in Reqs, p \in Passwords :
        comparePassword(p, cred.password) /\ LoginFind(r, Email, p)

ClientRefresh == \E r \in Reqs, t \in HeldRefreshTokens : Refresh(r, t)

ClientLogout == \E r \in Reqs, t \in HeldRefreshTokens : LogoutFind(r, t)

\* A logout whose body may lack the refreshToken field or hold an empty one.
ClientLogoutAny ==
    \E r \in Reqs, t \in HeldRefreshTokens \cup {NoToken} : LogoutFind(r, t)

\* A request to a protected route with a bearer token, or with none.
ClientProtected ==
    \E r \in Reqs, a \in HeldAccessTokens \cup {NoToken} : ProtectedRoute(r, a)

\* A request with a bearer token to a route behind authenticate and
\* checkPermission, or behind authenticate and authorize.
ClientChecked ==
    \E a \in HeldAccessTokens, resource \in Resources, action \in Actions :
        authenticate(a) = 200 /\ checkPermission(resource, action)

ClientAuthorized ==
    \E a \in HeldAccessTokens, allowedRoles \in (SUBSET RoleIds) \ {{}} :
        authenticate(a) = 200 /\ authorize(allowedRoles)

\* Clients that present whichever token they hold, of either kind.
ClientRefreshAny ==
    \E r \in Reqs, t \in HeldRefreshTokens \cup HeldAccessTokens : Refresh(r, t)

ClientLogoutAllAny ==
    \E r \in Reqs, a \in HeldAccessTokens \cup HeldRefreshTokens :
        LogoutAllFind(r, a)

ClientLogoutAll == \E r \in Reqs, a \in HeldAccessTokens : LogoutAllFind(r, a)

ClientChangePassword ==
    \E r \in Reqs, a \in HeldAccessTokens, p \in Passwords, n \in NewPasswords :
        ChangeFind(r, a, p, n)

ClientForgotPassword == \E r \in Reqs, e \in Emails : ForgotFind(r, e)

ClientResetPassword ==
    \E r \in Reqs, t \in 0..resetSeq, n \in NewPasswords : ResetFind(r, t, n)

ClientVerifyEmail ==
    \E r \in Reqs, token \in {"mailed", "other"} : VerifyFind(r, token)

AdminUpdateAccountStatus == \E b \in BOOLEAN : UpdateAccountStatus(b)

\* Every request, interleaved at the awaits.
Next ==
    \/ Tick
    \/ ClientLogin
    \/ ClientRefresh
    \/ ClientLogout
    \/ ClientLogoutAll
    \/ ClientChangePassword
    \/ ClientForgotPassword
    \/ ClientResetPassword
    \/ AdminUpdateAccountStatus
    \/ \E r \in Reqs : LoginVerify(r)
    \/ \E r \in Reqs : LoginStore(r)
    \/ \E r \in Reqs : LogoutSave(r)
    \/ \E r \in Reqs : LogoutAllSave(r)
    \/ \E r \in Reqs : ChangeSave(r)
    \/ \E r \in Reqs : ForgotSave(r)
    \/ \E r \in Reqs : ResetSave(r)
    \/ \E r \in Reqs : Close(r)
    \/ \E roleIds \in RoleIdArrays : assignRoles(roleIds)
    \/ \E roleIds \in RoleIdArrays : removeRoles(roleIds)
    \/ \E e \in CustomEntries : addCustomPermissions(<<e>>)
    \/ \E role \in RoleIds : toggleRoleStatus(role)
    \/ \E p \in PermissionIds : togglePermissionStatus(p)
    \/ \E resource \in Resources, action \in Actions :
           checkPermission(resource, action)

Spec == Init /\ [][Next]_vars

\* Logins, one request at a time, with the clock and the account status.
NextLock ==
    \/ Tick
    \/ Quiet /\ ClientLogin
    \/ Quiet /\ AdminUpdateAccountStatus
    \/ \E r \in Reqs : LoginVerify(r)
    \/ \E r \in Reqs : LoginStore(r)
    \/ \E r \in Reqs : Close(r)

SpecLock == Init /\ [][NextLock]_vars

\* Sessions of the owner, one request at a time.
NextRing ==
    \/ Tick
    \/ Quiet /\ OwnerLogin
    \/ Quiet /\ ClientRefresh
    \/ Quiet /\ ClientLogout
    \/ Quiet /\ ClientLogoutAll
    \/ \E r \in Reqs : LoginVerify(r)
    \/ \E r \in Reqs : LoginStore(r)
    \/ \E r \in Reqs : LogoutSave(r)
    \/ \E r \in Reqs : LogoutAllSave(r)
    \/ \E r \in Reqs : Close(r)

SpecRing == Init /\ [][NextRing]_vars

\* Sessions and password changes, one request at a time.
NextPass ==
    \/ Tick
    \/ Quiet /\ OwnerLogin
    \/ Quiet /\ ClientRefresh
    \/ Quiet /\ ClientChangePassword
    \/ Quiet /\ ClientForgotPassword
    \/ Quiet /\ ClientResetPassword
    \/ \E r \in Reqs : LoginVerify(r)
    \/ \E r \in Reqs : LoginStore(r)
    \/ \E r \in Reqs : ChangeSave(r)
    \/ \E r \in Reqs : ForgotSave(r)
    \/ \E r \in Reqs : ResetSave(r)
    \/ \E r \in Reqs : Close(r)

SpecPass == Init /\ [][NextPass]_vars

\* Password resets, one request at a time.
NextReset ==
    \/ Tick
    \/ Quiet /\ ClientForgotPassword
    \/ Quiet /\ ClientResetPassword
    \/ \E r \in Reqs : ForgotSave(r)
    \/ \E r \in Reqs : ResetSave(r)
    \/ \E r \in Reqs : Close(r)

SpecReset == Init /\ [][NextReset]_vars

\* Requests that write the refresh-token list, interleaved at their awaits.
NextConc ==
    \/ OwnerLogin
    \/ ClientLogout
    \/ ClientLogoutAll
    \/ ClientChangePassword
    \/ ClientForgotPassword
    \/ ClientResetPassword
    \/ \E r \in Reqs : LoginVerify(r)
    \/ \E r \in Reqs : LoginStore(r)
    \/ \E r \in Reqs : LogoutSave(r)
    \/ \E r \in Reqs : LogoutAllSave(r)
    \/ \E r \in Reqs : ChangeSave(r)
    \/ \E r \in Reqs : ForgotSave(r)
    \/ \E r \in Reqs : ResetSave(r)
    \/ \E r \in Reqs : Close(r)

SpecConc == Init /\ [][NextConc]_vars

\* Logins and logouts with any body, one request at a time.
NextLogout ==
    \/ Tick
    \/ Quiet /\ OwnerLogin
    \/ Quiet /\ ClientLogoutAny
    \/ \E r \in Reqs : LoginVerify(r)
    \/ \E r \in Reqs : LoginStore(r)
    \/ \E r \in Reqs : LogoutSave(r)
    \/ \E r \in Reqs : Close(r)

SpecLogout == Init /\ [][NextLogout]_vars

\* A request of the caller reaches a guarded route.
ClientGuarded ==
    \E endpoint \in Endpoints, identifier \in Identifiers :
        rateLimitAuth(RateLimits[endpoint].maxAttempts,
                      RateLimits[endpoint].windowMs, endpoint, identifier)

\* The rate limiter in front of the guarded routes, and the clock.
NextLimit ==
    \/ Tick
    \/ ClientGuarded

SpecLimit == Init /\ [][NextLimit]_vars

\* Sessions in which tokens of either kind are presented, one request at a time.
NextKinds ==
    \/ Tick
    \/ Quiet /\ OwnerLogin
    \/ Quiet /\ ClientRefreshAny
    \/ Quiet /\ ClientLogoutAllAny
    \/ \E r \in Reqs : LoginVerify(r)
    \/ \E r \in Reqs : LoginStore(r)
    \/ \E r \in Reqs : LogoutAllSave(r)
    \/ \E r \in Reqs : Close(r)

SpecKinds == Init /\ [][NextKinds]_vars

\* Logins, the account switch and requests to a protected route, one at a time.
NextGate ==
    \/ Tick
    \/ Quiet /\ ClientLogin
    \/ Quiet /\ AdminUpdateAccountStatus
    \/ Quiet /\ ClientProtected
    \/ \E r \in Reqs : LoginVerify(r)
    \/ \E r \in Reqs : LoginStore(r)
    \/ \E r \in Reqs : Close(r)

SpecGate == Init /\ [][NextGate]_vars

\* Sessions of the owner, changes of the owner's roles and overrides on one
\* resource, and requests to routes behind checkPermission; the clock stopped.
NextAccess ==
    \/ Quiet /\ OwnerLogin
    \/ \E r \in Reqs : LoginVerify(r)
    \/ \E r \in Reqs : LoginStore(r)
    \/ \E r \in Reqs : Close(r)
    \/ \E roleIds \in RoleIdArrays : assignRoles(roleIds)
    \/ \E roleIds \in RoleIdArrays : removeRoles(roleIds)
    \/ \E e \in CustomEntries :
           e.permissionId = "perm_staff" /\ addCustomPermissions(<<e>>)
    \/ ClientChecked

SpecAccess == Init /\ [][NextAccess]_vars

\* Sessions of the owner, changes of the owner's roles, and requests to routes
\* behind authorize.
NextRoles ==
    \/ Tick
    \/ Quiet /\ OwnerLogin
    \/ \E r \in Reqs : LoginVerify(r)
    \/ \E r \in Reqs : LoginStore(r)
    \/ \E r \in Reqs : Close(r)
    \/ \E roleIds \in RoleIdArrays : assignRoles(roleIds)
    \/ \E roleIds \in RoleIdArrays : removeRoles(roleIds)
    \/ ClientAuthorized

SpecRoles == Init /\ [][NextRoles]_vars

\* Sessions of the owner, one request at a time, and the account switch at any
\* moment.
NextInactive ==
    \/ Tick
    \/ Quiet /\ OwnerLogin
    \/ Quiet /\ ClientRefresh
    \/ AdminUpdateAccountStatus
    \/ \E r \in Reqs : LoginVerify(r)
    \/ \E r \in Reqs : LoginStore(r)
    \/ \E r \in Reqs : Close(r)

SpecInactive == Init /\ [][NextInactive]_vars

\* Every kind of request, one at a time, with the clock stopped.
NextFrame ==
    \/ Quiet /\ ClientLogin
    \/ Quiet /\ ClientRefresh
    \/ Quiet /\ ClientLogout
    \/ Quiet /\ ClientLogoutAll
    \/ Quiet /\ ClientChangePassword
    \/ Quiet /\ ClientForgotPassword
    \/ Quiet /\ ClientResetPassword
    \/ Quiet /\ ClientVerifyEmail
    \/ Quiet /\ ClientProtected
    \/ \E r \in Reqs : LoginVerify(r)
    \/ \E r \in Reqs : LoginStore(r)
    \/ \E r \in Reqs : LogoutSave(r)
    \/ \E r \in Reqs : LogoutAllSave(r)
    \/ \E r \in Reqs : ChangeSave(r)
    \/ \E r \in Reqs : ForgotSave(r)
    \/ \E r \in Reqs : ResetSave(r)
    \/ \E r \in Reqs : VerifySave(r)
    \/ \E r \in Reqs : Close(r)

SpecFrame == Init /\ [][NextFrame]_vars

\* Every request has been answered; the answers may still be on record.
Settled == \A q \in Reqs : reqs[q].pc \in {"idle", "done"}

\* Sessions ended and passwords replaced one request at a time, and protected
\* requests sent once the request before them has been answered.
NextStale ==
    \/ Tick
    \/ Quiet /\ OwnerLogin
    \/ Quiet /\ ClientLogout
    \/ Quiet /\ ClientLogoutAll
    \/ Quiet /\ ClientChangePassword
    \/ Quiet /\ ClientForgotPassword
    \/ Quiet /\ ClientResetPassword
    \/ Settled /\ ClientProtected
    \/ \E r \in Reqs : LoginVerify(r)
    \/ \E r \in Reqs : LoginStore(r)
    \/ \E r \in Reqs : LogoutSave(r)
    \/ \E r \in Reqs : LogoutAllSave(r)
    \/ \E r \in Reqs : ChangeSave(r)
    \/ \E r \in Reqs : ForgotSave(r)
    \/ \E r \in Reqs : ResetSave(r)
    \/ \E r \in Reqs : Close(r)

SpecStale == Init /\ [][NextStale]_vars

\* rateLimitAuth has called next() for the request to the endpoint that came
\* last.
HandedOn(endpoint) ==
    limited = [endpoint |-> endpoint, status |-> 200, retryAfter |-> 0]

\* The rate limiter in front of the guarded routes and the first login of the
\* owner behind it: the controller runs for a request the limiter handed on.
NextShared ==
    \/ Tick
    \/ Quiet /\ ClientGuarded
    \/ Quiet /\ HandedOn("login") /\ accessIat = NoDate /\ OwnerLogin
    \/ \E r \in Reqs : LoginVerify(r)
    \/ \E r \in Reqs : LoginStore(r)
    \/ \E r \in Reqs : Close(r)

SpecShared == Init /\ [][NextShared]_vars

\* Logins interleaved at their awaits, with the clock stopped.
NextLogins ==
    \/ ClientLogin
    \/ \E r \in Reqs : LoginVerify(r)
    \/ \E r \in Reqs : LoginStore(r)
    \/ \E r \in Reqs : Close(r)

SpecLogins == Init /\ [][NextLogins]_vars

\* Sessions of the owner interleaved at their awaits, with the clock.
NextRace ==
    \/ Tick
    \/ OwnerLogin
    \/ ClientRefresh
    \/ ClientLogout
    \/ ClientLogoutAll
    \/ \E r \in Reqs : LoginVerify(r)
    \/ \E r \in Reqs : LoginStore(r)
    \/ \E r \in Reqs : LogoutSave(r)
    \/ \E r \in Reqs : LogoutAllSave(r)
    \/ \E r \in Reqs : Close(r)

SpecRace == Init /\ [][NextRace]_vars

\* The permission gate and the administration of roles and permissions.
NextPerm ==
    \/ \E roleIds \in RoleIdArrays : assignRoles(roleIds)
    \/ \E roleIds \in RoleIdArrays : removeRoles(roleIds)
    \/ \E e \in CustomEntries : addCustomPermissions(<<e>>)
    \/ \E role \in RoleIds : toggleRoleStatus(role)
    \/ \E p \in PermissionIds : togglePermissionStatus(p)
    \/ \E resource \in Resources, action \in Actions :
           checkPermission(resource, action)

SpecPerm == Init /\ [][NextPerm]_vars
\* ---- properties ---------------------------------------------------------------
\* now < accountLockedUntil.
Locked == cred.accountLockedUntil # NoDate /\ now < cred.accountLockedUntil

\* Request r is a login for the credential's email that starts in this step.
LoginArrives(r) ==
    /\ reqs[r].pc = "idle"
    /\ reqs'[r].pc # "idle"
    /\ reqs'[r].op = "login"
    /\ reqs'[r].info # "unknown"

\* C1: the login that makes the fifth consecutive failure locks the account,
\* and every login that arrives while now < accountLockedUntil is answered 403,
\* with the right password as with a wrong one; it issues no token and stores
\* no refresh token.
C1_LockedLoginRejected ==
    [][\A r \in Reqs :
        /\ (/\ reqs[r].pc = "login_verify"
            /\ reqs'[r].pc = "done"
            /\ cred'.failedLoginAttempts >= 5)
           => (cred'.accountLockedUntil # NoDate /\ now' < cred'.accountLockedUntil)
        /\ (LoginArrives(r) /\ Locked)
           => /\ reqs'[r].pc = "done"
              /\ reqs'[r].status = 403
              /\ reqs'[r].token = NoToken
              /\ cred'.refreshTokens = cred.refreshTokens
              /\ issued' = issued
              /\ accessIat' = accessIat]_vars

\* A login with the right password was answered 403 on the locked account.
C1_Witness ==
    \E r \in Reqs :
        /\ reqs[r].pc = "done" /\ reqs[r].op = "login" /\ reqs[r].status = 403
        /\ reqs[r].info = "locked"
        /\ comparePassword(reqs[r].password, cred.password)
        /\ cred.failedLoginAttempts >= 5
        /\ Locked

\* Request r is a resetPassword with raw token t and an acceptable new
\* password that arrives in this step.
ResetArrives(r) ==
    /\ reqs[r].pc = "idle"
    /\ reqs'[r].pc # "idle"
    /\ reqs'[r].op = "resetPassword"
    /\ reqs'[r].info # "weak"

\* C2: a resetPassword with a raw token that a resetPassword has succeeded with
\* before is answered 400 (invalid or expired token) and leaves the password
\* as it is, whatever other reset records the credential holds.
C2_ResetTokenOnce ==
    [][\A r \in Reqs :
        (ResetArrives(r) /\ reqs'[r].reset \in resetDone)
        => /\ reqs'[r].pc = "done"
           /\ reqs'[r].status = 400
           /\ cred'.password = cred.password]_vars

\* C3: resetPassword goes on to change the password only if one single stored
\* record has the digest of the raw token, expires later than now and is unused;
\* otherwise it is answered 400 and changes nothing.
C3_SingleRecordMatches ==
    [][\A r \in Reqs :
        ResetArrives(r)
        => IF \E i \in DOMAIN cred.passwordResetTokens :
                  /\ cred.passwordResetTokens[i].token = <<"sha256", reqs'[r].reset>>
                  /\ cred.passwordResetTokens[i].expiresAt > now
                  /\ cred.passwordResetTokens[i].used = FALSE
           THEN reqs'[r].pc = "reset_save"
           ELSE /\ reqs'[r].pc = "done"
                /\ reqs'[r].status = 400
                /\ cred' = cred]_vars

\* ---- properties of the permission gate ------------------------------------------
\* Entry i of customPermissions is for the resource, and is revoked.
RevokedAt(i, resource) ==
    /\ permissions[profile.customPermissions[i].permissionId].resource = resource
    /\ profile.customPermissions[i].isRevoked

\* Entry i of customPermissions is for the resource, is not revoked and
\* allows the action.
AllowedAt(i, resource, action) ==
    /\ permissions[profile.customPermissions[i].permissionId].resource = resource
    /\ ~profile.customPermissions[i].isRevoked
    /\ action \in profile.customPermissions[i].allowedActions

\* Some assigned role, its isActive as activeOnly asks, has a permission entry
\* for (resource, action) whose Permission is active.
RoleGrant(resource, action, activeOnly) ==
    \E i \in DOMAIN profile.assignedRoles :
        /\ activeOnly => roles[profile.assignedRoles[i]].isActive
        /\ \E j \in DOMAIN roles[profile.assignedRoles[i]].permissions :
               LET entry == roles[profile.assignedRoles[i]].permissions[j]
               IN /\ permissions[entry.permissionId].resource = resource
                  /\ permissions[entry.permissionId].isActive
                  /\ action \in entry.allowedActions

\* C4 as claimed: a revoked custom entry for the checked resource anywhere in
\* the list makes the gate deny every action on it.
C4_RevokedAnywhereDenies ==
    (/\ checked # NoCheck
     /\ \E i \in DOMAIN profile.customPermissions : RevokedAt(i, checked.resource))
    => checked.status = 403

\* C4 as amended: a revoked custom entry for the checked resource makes the
\* gate deny, whatever the roles grant, unless an entry before it in the list
\* is a non-revoked entry for the resource that allows the action.
C4_FirstRevokedDenies ==
    (/\ checked # NoCheck
     /\ \E i \in DOMAIN profile.customPermissions :
               /\ RevokedAt(i, checked.resource)
               /\ \A j \in 1..(i - 1) : ~AllowedAt(j, checked.resource, checked.action))
    => checked.status = 403

\* A role grants the action, the second custom entry revokes the resource after
\* a first entry for it that allows another action only: the gate denied.
C4_Witness ==
    /\ checked # NoCheck
    /\ checked.status = 403
    /\ RoleGrant(checked.resource, checked.action, TRUE)
    /\ Len(profile.customPermissions) = 2
    /\ RevokedAt(2, checked.resource)
    /\ permissions[profile.customPermissions[1].permissionId].resource = checked.resource
    /\ ~AllowedAt(1, checked.resource, checked.action)
    /\ ~RevokedAt(1, checked.resource)

\* C5: with no custom entry for the checked resource the gate grants exactly when
\* an assigned role that is active has an entry for the resource that allows
\* the action and whose Permission is active.
C5_ActiveRoleGrants ==
    (/\ checked # NoCheck
     /\ \A i \in DOMAIN profile.customPermissions :
               permissions[profile.customPermissions[i].permissionId].resource
                   # checked.resource)
    => (checked.status = 200 <=> RoleGrant(checked.resource, checked.action, TRUE))

\* C6: no role grants (resource, action), a non-revoked custom entry for the
\* resource allows the action and no custom entry revokes the resource: the
\* gate grants.
C6_CustomGrantOverrides ==
    (/\ checked # NoCheck
     /\ ~RoleGrant(checked.resource, checked.action, TRUE)
     /\ \E i \in DOMAIN profile.customPermissions :
            AllowedAt(i, checked.resource, checked.action)
     /\ \A i \in DOMAIN profile.customPermissions :
            ~RevokedAt(i, checked.resource))
    => checked.status = 200

\* The gate granted payroll export to a profile without roles on a custom entry.
C6_Witness ==
    /\ checked = [resource |-> "payroll", action |-> "export", status |-> 200]
    /\ profile.assignedRoles = <<>>
    /\ \E i \in DOMAIN profile.customPermissions : AllowedAt(i, "payroll", "export")
    /\ \A i \in DOMAIN profile.customPermissions : ~RevokedAt(i, "payroll")

\* ---- properties of the refresh-token list ---------------------------------------
\* C7: in every reachable state, whatever login, logout, logoutAll,
\* changePassword and resetPassword requests have run and however they
\* interleaved, the stored refreshTokens list holds at most 5 records.
C7_RingAtMostFive == Len(cred.refreshTokens) <= 5

\* A login that found the list full has stored its token: the list holds 5.
C7_Witness ==
    /\ Len(cred.refreshTokens) = 5
    /\ \E r \in Reqs :
           /\ reqs[r].pc = "done" /\ reqs[r].op = "login"
           /\ reqs[r].status = 200 /\ reqs[r].info = "evicted"

\* Request r stores its refresh token in this step.
TokenStored(r) ==
    /\ reqs[r].pc = "login_store"
    /\ reqs'[r].pc = "done"
    /\ reqs'[r].status = 200

\* C8: addRefreshToken on a list with 5 unexpired records removes the first,
\* which no other record was created before, keeps the other 4 in their order
\* and appends the new record; on a list with fewer than 5 unexpired records it
\* keeps every unexpired record, in order, and appends the new record.
C8_EvictsOldestOnly ==
    [][\A r \in Reqs :
        TokenStored(r)
        => LET before == reqs[r].doc.refreshTokens
               live == SelectSeq(before, LAMBDA rt : rt.expiresAt > now)
               after == cred'.refreshTokens
               added == [token |-> reqs'[r].token, expiresAt |-> now + RefreshTTL,
                         createdAt |-> now]
           IN IF Len(live) >= 5
              THEN /\ Len(after) = 5
                   /\ \A i \in 1..4 : after[i] = live[i + 1]
                   /\ after[5] = added
                   /\ \A i \in 1..Len(live) : live[1].createdAt <= live[i].createdAt
              ELSE after = Append(live, added)]_vars

\* A login evicted a record from a full list whose records were created at
\* different times.
C8_Witness ==
    /\ Len(cred.refreshTokens) = 5
    /\ cred.refreshTokens[1].createdAt < cred.refreshTokens[5].createdAt
    /\ \E r \in Reqs :
           /\ reqs[r].pc = "done" /\ reqs[r].op = "login"
           /\ reqs[r].status = 200 /\ reqs[r].info = "evicted"

\* Request r completes a changePassword or a resetPassword in this step.
PasswordReplaced(r) ==
    /\ reqs[r].pc \in {"change_save", "reset_save"}
    /\ reqs'[r].pc = "done"
    /\ reqs'[r].status = 200

\* C9: when a changePassword or a resetPassword succeeds, the stored
\* refreshTokens list is empty, and refresh is answered 401 for every refresh
\* token handed out before.
C9_PasswordChangeEmptiesRing ==
    [][\A r \in Reqs :
        PasswordReplaced(r)
        => /\ cred'.refreshTokens = <<>>
           /\ \A t \in issued : RefreshStatus(generateRefreshToken(t))' = 401]_vars

\* A changePassword removed stored refresh tokens, after a resetPassword had
\* succeeded: the list is empty and refresh fails for a token handed out.
C9_Witness ==
    /\ resetDone # {}
    /\ cred.refreshTokens = <<>>
    /\ \E r \in Reqs :
           /\ reqs[r].pc = "done" /\ reqs[r].op = "changePassword"
           /\ reqs[r].status = 200 /\ reqs[r].info = "removed"
    /\ \E t \in issued : t + RefreshTTL > now /\ RefreshStatus(generateRefreshToken(t)) = 401

\* C10: a login that arrives while now < accountLockedUntil ends at once and
\* leaves failedLoginAttempts and accountLockedUntil as they are, with the
\* right password as with a wrong one.
C10_LockedLoginKeepsCounters ==
    [][\A r \in Reqs :
        (LoginArrives(r) /\ Locked)
        => /\ reqs'[r].pc = "done"
           /\ cred'.failedLoginAttempts = cred.failedLoginAttempts
           /\ cred'.accountLockedUntil = cred.accountLockedUntil]_vars

\* A login with a wrong password was turned away from the locked account.
C10_Witness ==
    \E r \in Reqs :
        /\ reqs[r].pc = "done" /\ reqs[r].op = "login" /\ reqs[r].info = "locked"
        /\ ~comparePassword(reqs[r].password, cred.password)
        /\ cred.failedLoginAttempts = 5
        /\ Locked

\* ---- properties of the failed-login counter ---------------------------------------
\* now >= accountLockedUntil: the stored lock has run out.
LockElapsed == cred.accountLockedUntil # NoDate /\ now >= cred.accountLockedUntil

\* C11: once now >= accountLockedUntil a login is let past the lock test; with
\* the right password it sets failedLoginAttempts to 0 and clears
\* accountLockedUntil, and for an active profile it is answered 200 with tokens.
C11_ElapsedLockLetsLoginIn ==
    [][\A r \in Reqs :
        /\ (LoginArrives(r) /\ LockElapsed) => reqs'[r].pc = "login_verify"
        /\ (/\ reqs[r].pc = "login_verify"
            /\ reqs'[r].pc # "login_verify"
            /\ LockElapsed
            /\ comparePassword(reqs[r].password, cred.password))
           => /\ reqs'[r].pc = "login_store"
              /\ cred'.failedLoginAttempts = 0
              /\ cred'.accountLockedUntil = NoDate
        /\ (/\ reqs[r].pc = "login_store"
            /\ reqs'[r].pc = "done"
            /\ reqs[r].found >= 5
            /\ profile.isActive)
           => /\ reqs'[r].status = 200
              /\ reqs'[r].token # NoToken
              /\ cred'.failedLoginAttempts = 0
              /\ cred'.accountLockedUntil = NoDate]_vars

\* A login that found 5 or more failures behind a lock that had run out was
\* answered 200, and the counter and the lock are cleared.
C11_Witness ==
    \E r \in Reqs :
        /\ reqs[r].pc = "done" /\ reqs[r].op = "login" /\ reqs[r].status = 200
        /\ reqs[r].found >= 5
        /\ cred.failedLoginAttempts = 0
        /\ cred.accountLockedUntil = NoDate

\* C12: while the count is below 5 no lock is stored; a wrong password raises
\* the count by one and stores accountLockedUntil = now + the lock duration
\* exactly when the count reaches 5; after fewer than 5 failures a login with
\* the right password clears the count, leaves the lock cleared and, for an
\* active profile, is answered 200.
C12_LockedExactlyAtFive ==
    [][\A r \in Reqs :
        /\ cred'.failedLoginAttempts < 5 => cred'.accountLockedUntil = NoDate
        /\ (/\ reqs[r].pc = "login_verify"
            /\ reqs'[r].pc = "done"
            /\ reqs[r].found < 5)
           => /\ cred'.failedLoginAttempts = reqs[r].found + 1
              /\ (cred'.accountLockedUntil # NoDate) <=> (cred'.failedLoginAttempts = 5)
              /\ cred'.failedLoginAttempts = 5
                 => cred'.accountLockedUntil = now + LockDuration
        /\ (/\ reqs[r].pc = "login_verify"
            /\ reqs'[r].pc = "login_store"
            /\ reqs[r].found < 5)
           => /\ cred'.failedLoginAttempts = 0
              /\ cred'.accountLockedUntil = NoDate
        /\ (/\ reqs[r].pc = "login_store"
            /\ reqs'[r].pc = "done"
            /\ reqs[r].found < 5
            /\ profile.isActive)
           => /\ reqs'[r].status = 200
              /\ cred'.failedLoginAttempts = 0
              /\ cred'.accountLockedUntil = NoDate]_vars

\* A login with the right password after 4 failures was answered 200 and the
\* counter is back at 0.
C12_Witness ==
    \E r \in Reqs :
        /\ reqs[r].pc = "done" /\ reqs[r].op = "login" /\ reqs[r].status = 200
        /\ reqs[r].found = 4
        /\ cred.failedLoginAttempts = 0
        /\ cred.accountLockedUntil = NoDate

\* C13: when logins with a wrong password interleave, every mismatch raises the
\* stored failedLoginAttempts by exactly one.
C13_EveryMismatchCounts ==
    [][\A r \in Reqs :
        (/\ reqs[r].pc = "login_verify"
         /\ reqs'[r].pc = "done"
         /\ reqs'[r].info = "mismatch")
        => cred'.failedLoginAttempts = cred.failedLoginAttempts + 1]_vars

\* The token strings the stored ring holds.
RingTokens(c) == {c.refreshTokens[i].token : i \in DOMAIN c.refreshTokens}

\* C14: ring mutations that interleave lose no update: a logout that completes
\* takes its own token out of the stored ring and nothing else, and a login that
\* completes adds its token and brings back no token that was removed.
C14_NoLostRingUpdate ==
    [][\A r \in Reqs :
        /\ (reqs[r].pc = "logout_save" /\ reqs'[r].pc = "done")
           => RingTokens(cred') = RingTokens(cred) \ {reqs[r].token}
        /\ (reqs[r].pc = "login_store" /\ reqs'[r].pc = "done"
                                       /\ reqs'[r].status = 200)
           => /\ reqs'[r].token \in RingTokens(cred')
              /\ RingTokens(cred') \subseteq RingTokens(cred) \cup {reqs'[r].token}]_vars

\* C15: refresh answers 200 only to a token that verifies, is stored unexpired
\* in the ring and belongs to an active profile; a completed logout(T) or
\* logoutAll leaves T out of the ring, and T comes into the ring only by a login
\* that stores T as its own token.
C15_RefreshNeedsStoredToken ==
    [][/\ \A r \in Reqs :
            /\ (reqs[r].pc = "idle" /\ reqs'[r].op = "refresh"
                                    /\ reqs'[r].status = 200)
               => /\ verifyRefreshToken(reqs'[r].token, now)
                  /\ \E i \in DOMAIN cred.refreshTokens :
                        /\ cred.refreshTokens[i].token = reqs'[r].token
                        /\ cred.refreshTokens[i].expiresAt > now
                  /\ profile.isActive
            /\ (reqs[r].pc = "logout_save" /\ reqs'[r].pc = "done")
               => reqs[r].token \notin RingTokens(cred')
            /\ (reqs[r].pc = "logoutall_save" /\ reqs'[r].pc = "done")
               => RingTokens(cred') = {}
       /\ \A t \in 0..MaxTime :
            (/\ generateRefreshToken(t) \notin RingTokens(cred)
             /\ generateRefreshToken(t) \in RingTokens(cred'))
            => \E r \in Reqs : /\ reqs[r].pc = "login_store"
                               /\ reqs'[r].pc = "done"
                               /\ reqs'[r].token = generateRefreshToken(t)]_vars

\* C16: refresh with a refresh token whose expiry has passed answers 401, issues
\* no access token and leaves the credential as it was.
C16_ExpiredRefreshRejected ==
    [][\A r \in Reqs :
        (/\ reqs[r].pc = "idle"
         /\ reqs'[r].op = "refresh"
         /\ reqs'[r].token.secret = "refresh"
         /\ now >= reqs'[r].token.exp)
        => /\ reqs'[r].status = 401
           /\ accessIat' = accessIat
           /\ cred' = cred]_vars

\* A refresh token that is still in the stored ring was presented after its
\* expiry and refused.
C16_Witness ==
    \E r \in Reqs :
        /\ reqs[r].pc = "done"
        /\ reqs[r].op = "refresh"
        /\ reqs[r].status = 401
        /\ reqs[r].token.secret = "refresh"
        /\ now >= reqs[r].token.exp
        /\ reqs[r].token \in RingTokens(cred)

\* A logout request is answered in this step.
LogoutAnswered(r) ==
    /\ reqs[r].pc \in {"idle", "logout_save"}
    /\ reqs'[r].pc = "done"
    /\ reqs'[r].op = "logout"

\* C17 as stated: logout answers success whatever the request carries.
C17_LogoutAlwaysSucceeds ==
    [][\A r \in Reqs : LogoutAnswered(r) => reqs'[r].status = 200]_vars

\* C17: logout with a refresh token string that is not empty answers 200,
\* whether the token is valid, expired, malformed or already removed, and a
\* logout with a token the ring does not hold leaves the ring as it was, so a
\* second logout with the same token changes nothing.
C17_LogoutIdempotent ==
    [][\A r \in Reqs :
        (LogoutAnswered(r) /\ reqs'[r].token # NoToken)
        => /\ reqs'[r].status = 200
           /\ cred'.refreshTokens
                = (IF reqs'[r].info = "invalid"
                   THEN cred.refreshTokens
                   ELSE removeRefreshToken(cred.refreshTokens, reqs'[r].token))
           /\ (reqs'[r].info # "invalid"
                 => reqs'[r].token \notin RingTokens(cred'))
           /\ (reqs'[r].token \notin RingTokens(cred) => cred' = cred)]_vars

\* A second logout with a token that the first one removed was answered 200 and
\* found nothing to remove.
C17_Witness ==
    \E r \in Reqs :
        /\ reqs[r].pc = "done"
        /\ reqs[r].op = "logout"
        /\ reqs[r].status = 200
        /\ reqs[r].info = "absent"
        /\ reqs[r].token.secret = "refresh"
        /\ reqs[r].token.iat \in issued

\* What forgotPassword answers for an email that has no credential: status 200,
\* the message "If the email exists, a reset link has been sent", no token.
ForgotUnknownResponse == [status |-> 200, info |-> "unknown", reset |-> 0]

\* C18: forgotPassword answers an email that has a credential with the status
\* and body it answers an email that has none with.
C18_ForgotResponseUniform ==
    \A r \in Reqs :
        (reqs[r].pc = "done" /\ reqs[r].op = "forgotPassword")
        => [status |-> reqs[r].status, info |-> reqs[r].info,
            reset |-> reqs[r].reset] = ForgotUnknownResponse

RECURSIVE SumPassed(_)
\* The number of handed-on requests recorded under the keys.
SumPassed(keys) ==
    IF keys = {} THEN 0
    ELSE LET k == CHOOSE x \in keys : TRUE
         IN passed[k] + SumPassed(keys \ {k})

\* Requests to the endpoint handed on at the times from..to.
PassedBetween(endpoint, from, to) ==
    SumPassed({[endpoint |-> endpoint, at |-> at, resetAt |-> resetAt] :
                  at \in (from..to) \cap (0..MaxTime),
                  resetAt \in 1..(MaxTime + HourWindow)})

\* Requests to the endpoint handed on by the limiter's entry that ends at resetAt.
PassedInWindow(endpoint, resetAt) ==
    SumPassed({[endpoint |-> endpoint, at |-> at, resetAt |-> resetAt] :
                  at \in 0..MaxTime})

\* C19 as stated: in every interval of length windowMs at most maxAttempts
\* requests to a guarded endpoint are handed on, and a rejection carries a
\* positive retryAfter.
C19_SlidingWindow ==
    /\ \A endpoint \in Endpoints, s \in 0..MaxTime :
          PassedBetween(endpoint, s, s + RateLimits[endpoint].windowMs - 1)
              <= RateLimits[endpoint].maxAttempts
    /\ limited.status = 429 => limited.retryAfter > 0

\* C19: the limiter counts in fixed windows: an entry of the Map opens a window
\* that ends at its resetAt, at most maxAttempts requests to a guarded endpoint
\* are handed on within one such window, and a rejection carries a positive
\* retryAfter.
C19_FixedWindow ==
    /\ \A endpoint \in Endpoints, resetAt \in 1..(MaxTime + HourWindow) :
          PassedInWindow(endpoint, resetAt) <= RateLimits[endpoint].maxAttempts
    /\ \A k \in PassKeys : passed[k] > 0 => k.at < k.resetAt
    /\ limited.status = 429 => limited.retryAfter > 0

\* A request to forgot-password was rejected after the window had handed on
\* maxAttempts requests to that endpoint.
C19_Witness ==
    /\ limited.status = 429
    /\ limited.endpoint = "forgotPassword"
    /\ loginAttempts["ip"].resetAt > now
    /\ PassedInWindow("forgotPassword", loginAttempts["ip"].resetAt)
          = RateLimits["forgotPassword"].maxAttempts

\* C20: a token made by generateRefreshToken is never accepted by
\* verifyAccessToken and never authenticates a request; a token made by
\* generateAccessToken is never accepted by verifyRefreshToken and never
\* obtains an access token through refresh.
C20_TokenKindsApart ==
    /\ \A t \in issued :
          /\ ~verifyAccessToken(generateRefreshToken(t), now)
          /\ authenticate(generateRefreshToken(t)) = 401
    /\ accessIat # NoDate
          => /\ ~verifyRefreshToken(generateAccessToken(accessIat), now)
             /\ RefreshStatus(generateAccessToken(accessIat)) = 401
    /\ \A r \in Reqs :
          (/\ reqs[r].pc = "done"
           /\ reqs[r].op = "refresh"
           /\ reqs[r].token.secret = "access")
          => reqs[r].status = 401

\* An access token that still authenticates was presented to refresh and
\* refused, while a stored refresh token is good for a refresh.
C20_Witness ==
    \E r \in Reqs :
        /\ reqs[r].pc = "done"
        /\ reqs[r].op = "refresh"
        /\ reqs[r].status = 401
        /\ reqs[r].token = generateAccessToken(accessIat)
        /\ authenticate(reqs[r].token) = 200
        /\ \E t \in issued : RefreshStatus(generateRefreshToken(t)) = 200

\* Request r, to a route behind authenticate, is answered in this step.
GateAnswered(r) ==
    /\ reqs[r].pc = "idle"
    /\ reqs'[r].pc = "done"
    /\ reqs'[r].op = "protected"

CustomDeciders(resource, action) ==
    {i \in DOMAIN profile.customPermissions :
        RevokedAt(i, resource) \/ AllowedAt(i, resource, action)}

\* What the stored roles and overrides give for (resource, action): the first
\* custom entry that settles it, or else a grant of an assigned role.
StoredDecision(resource, action) ==
    IF CustomDeciders(resource, action) # {}
    THEN LET first == CHOOSE i \in CustomDeciders(resource, action) :
                          \A j \in CustomDeciders(resource, action) : i <= j
         IN AllowedAt(first, resource, action)
    ELSE RoleGrant(resource, action, FALSE)

\* The access token handed out last still authenticates, and the roles in its
\* claims are not the roles stored now.
TokenOutdated ==
    /\ accessIat # NoDate
    /\ authenticate(generateAccessToken(accessIat)) = 200
    /\ accessRoles # profile.assignedRoles

ProfileRoleNames == {profile.assignedRoles[i] : i \in DOMAIN profile.assignedRoles}

\* The role names in the claims of the access token handed out last.
TokenRoleNames == {accessRoles[i] : i \in DOMAIN accessRoles}

\* C23: authorize(requiredRoles) passes exactly when the role names of the
\* attached profile intersect requiredRoles and answers 403 otherwise; the role
\* names in the token's claims play no part.
C23_AuthorizeByProfileRoles ==
    [][(authorized' # authorized /\ authorized' # NoAuthorize) =>
        /\ authorized'.status \in {200, 403}
        /\ authorized'.status = 200
             <=> ProfileRoleNames \cap authorized'.allowedRoles # {}]_vars

\* A request whose token names a required role was refused after the role had
\* been taken from the profile, the token still authenticating.
C23_Witness ==
    /\ TokenOutdated
    /\ authorized.status = 403
    /\ TokenRoleNames \cap authorized.allowedRoles # {}
    /\ ProfileRoleNames \cap authorized.allowedRoles = {}

C25_OnlyLoginTouchesLockout ==
    [][(\/ cred'.failedLoginAttempts # cred.failedLoginAttempts
        \/ cred'.accountLockedUntil # cred.accountLockedUntil)
       => \E r \in Reqs : /\ reqs[r].pc = "login_verify"
                          /\ reqs'[r].op = "login"]_vars

\* A changePassword with a wrong current password was answered while failed
\* logins are on record, and the record is as the logins left it.
C25_Witness ==
    \E r \in Reqs :
        /\ reqs[r].pc = "done"
        /\ reqs[r].op = "changePassword"
        /\ reqs[r].status = 401
        /\ reqs[r].info = "mismatch"
        /\ cred.failedLoginAttempts = 2

\* C26: in every state accountLockedUntil is set only if failedLoginAttempts
\* is at least 5, and failedLoginAttempts is not negative, whatever logins
\* have failed or succeeded and however they interleave.
C26_LockImpliesFiveFailures ==
    /\ cred.failedLoginAttempts >= 0
    /\ cred.accountLockedUntil # NoDate
           => cred.failedLoginAttempts >= MaxFailedAttempts

\* The lock has been set and its time has passed.
LockExpired == cred.accountLockedUntil # NoDate /\ ~Locked

\* C27: the expiry of a lock leaves failedLoginAttempts as it is, and only a
\* password match lowers it; so a wrong-password login after the expiry, with
\* no successful login in between, raises the count above 5 and locks the
\* account again for the lock duration counted from that attempt.
C27_ExpiryKeepsCount ==
    [][/\ cred'.failedLoginAttempts < cred.failedLoginAttempts
           => \E r \in Reqs :
                  /\ reqs[r].pc = "login_verify"
                  /\ comparePassword(reqs[r].password, cred.password)
       /\ \A r \in Reqs :
              (/\ LockExpired
               /\ reqs[r].pc = "login_verify"
               /\ reqs'[r].info = "mismatch")
              => /\ cred'.failedLoginAttempts = cred.failedLoginAttempts + 1
                 /\ cred'.failedLoginAttempts > MaxFailedAttempts
                 /\ cred'.accountLockedUntil = now + LockDuration
                 /\ Locked']_vars

\* The login after the expiry has failed: the count is 6 and the account is
\* locked from the time of that attempt, later than the first lock.
C27_Witness ==
    \E r \in Reqs :
        /\ reqs[r].pc = "done"
        /\ reqs[r].op = "login"
        /\ reqs[r].info = "mismatch"
        /\ cred.failedLoginAttempts = MaxFailedAttempts + 1
        /\ cred.accountLockedUntil = now + LockDuration
        /\ now > 0

\* Request q is a logout, logoutAll, changePassword or resetPassword that has
\* completed with 200 and whose answer is still on record.
Completed(q) ==
    /\ reqs[q].pc = "done"
    /\ reqs[q].status = 200
    /\ reqs[q].op \in {"logout", "logoutAll", "changePassword", "resetPassword"}
    /\ reqs[q].info # "invalid"

\* C28: authenticate looks neither at the refresh-token list nor at
\* passwordChangedAt: a request that carries an unexpired access token issued
\* before a logout, logoutAll, changePassword or resetPassword is handed on
\* after that operation has completed, the credential not being Locked and the
\* profile being active.
C28_AccessTokenOutlivesSession ==
    [][\A r \in Reqs :
          (/\ GateAnswered(r)
           /\ verifyAccessToken(reqs'[r].token, now)
           /\ ~Locked
           /\ profile.isActive
           /\ \E q \in Reqs \ {r} : Completed(q))
          => /\ reqs'[r].status = 200
             /\ reqs'[r].info = "next"]_vars

\* A changePassword has completed, the list is empty and passwordChangedAt is
\* not before the issue of the access token, and the request that carried the
\* token was handed on.
C28_Witness ==
    \E r \in Reqs, q \in Reqs :
        /\ q # r
        /\ Completed(q)
        /\ reqs[q].op = "changePassword"
        /\ reqs[r].pc = "done"
        /\ reqs[r].op = "protected"
        /\ reqs[r].status = 200
        /\ cred.refreshTokens = <<>>
        /\ cred.passwordChangedAt >= reqs[r].token.iat

\* The limiter's entry of the caller, and whether its window is running.
Entry == loginAttempts["ip"]

Live == Entry # NoAttempts /\ Entry.resetAt > now

\* Requests handed on at any time by the entry that ends at resetAt.
PassedBy(endpoint, resetAt) ==
    passed[[endpoint |-> endpoint, at |-> 0, resetAt |-> resetAt]]
    + passed[[endpoint |-> endpoint, at |-> 1, resetAt |-> resetAt]]
    + passed[[endpoint |-> endpoint, at |-> 2, resetAt |-> resetAt]]
    + SumPassed({[endpoint |-> endpoint, at |-> at, resetAt |-> resetAt] :
                    at \in 3..MaxTime})

\* While the window runs, the count is the number of requests handed on in
\* it, to whichever endpoint.
SharedCount ==
    Live => Entry.count = PassedBy("login", Entry.resetAt)
                          + PassedBy("forgotPassword", Entry.resetAt)
                          + PassedBy("resetPassword", Entry.resetAt)

ChangeFails(r) ==
    /\ reqs[r].pc = "idle"
    /\ reqs'[r].pc = "done"
    /\ reqs'[r].op = "changePassword"
    /\ reqs'[r].status # 200

\* C30: a changePassword that fails, for a new password below the strength
\* policy, for a wrong current password or because it was not let through,
\* leaves the credential as it was: password hash, passwordChangedAt and the
\* refresh tokens are the same as before the call; and a changePassword that
\* is answered 200 is the only one that writes them.
C30_FailedChangeWritesNothing ==
    [][\A r \in Reqs :
          /\ ChangeFails(r)
               => /\ reqs'[r].status \in {400, 401, 403}
                  /\ cred'.password = cred.password
                  /\ cred'.passwordChangedAt = cred.passwordChangedAt
                  /\ cred'.refreshTokens = cred.refreshTokens
                  /\ cred' = cred
          /\ (reqs[r].pc = "change_save" /\ reqs'[r].pc = "done")
               => reqs'[r].status = 200]_vars

\* A changePassword with a wrong current password was answered 401 while the
\* credential holds a session and the password set at construction.
C30_Witness ==
    \E r \in Reqs :
        /\ reqs[r].pc = "done"
        /\ reqs[r].op = "changePassword"
        /\ reqs[r].info = "mismatch"
        /\ cred.refreshTokens # <<>>
        /\ cred.password = hashPassword(PwA)
        /\ cred.passwordChangedAt = NoDate

====
